---- MODULE Spec2Model ----
(***************************************************************************)
(* Movira SDK: content-addressed invoice / loan memos on an append-only    *)
(* ledger, and the status derivation that re-scans the ledger's history.   *)
(*                                                                         *)
(* Values are tagged tuples, tag first:                                    *)
(*   <<"u">>            undefined                                          *)
(*   <<"n", k>>         a number                                           *)
(*   <<"s", chunks>>    a string, as a sequence of chunks                  *)
(*   <<"w", word>>      chunk: a word of text                              *)
(*   <<"h", text>>      chunk: the 64-hex-digit SHA-256 digest of text     *)
(*   <<"x", n>>         chunk: n repetitions of one character              *)
(*   <<"a", elements>>  a nested array, elements in their order            *)
(*   <<"o", members>>   a nested object, as the sequence of its members    *)
(* An object is a sequence of <<key, value>> pairs in insertion order.     *)
(* A JSON text is the flat token sequence key, value, key, value, ...      *)
(***************************************************************************)
EXTENDS Integers, Sequences, FiniteSets, TLC

VARIABLES ledger, now, publicKey, ret, calls

vars == <<ledger, now, publicKey, ret, calls>>

-----------------------------------------------------------------------------
(* Bounds of the model *)

MaxLedger == 4
MaxNow == 1
MaxRefs == 1

(* Scan windows, scaled down from the literals 1000 / 200 / 1000 of the    *)
(* code; the order StatusLimit < VerifyLimit = LoanLimit is the code's.    *)
VerifyLimit == 3
StatusLimit == 2
LoanLimit == 3

-----------------------------------------------------------------------------
(* Values *)

Undefined == <<"u">>
Num(k) == <<"n", k>>
Str(chunks) == <<"s", chunks>>
Word(w) == <<"w", w>>
Text1(w) == Str(<<Word(w)>>)
Arr(elements) == <<"a", elements>>
Obj(members) == <<"o", members>>

IsNum(v) == v[1] = "n"
IsStr(v) == v[1] = "s"

MemoProgramId == "MemoSq4gqABAXKb96qnH8TysNcWxMyWCqXgDLGmfcHr"
SystemProgramId == "11111111111111111111111111111111"

WordLen(w) ==
  CASE w = "RecipientPubkey44" -> 44
    [] w = "WalletPubkey44" -> 44
    [] w = "LenderPubkey44" -> 44
    [] w = "short" -> 5
    [] w = "Repay" -> 5
    [] w = "Lendify" -> 7
    [] w = "nonexistent-id" -> 14
    [] OTHER -> 1

Chars(n) == <<"x", n>>

ChunkLen(c) == IF c[1] = "h" THEN 64 ELSE IF c[1] = "x" THEN c[2] ELSE WordLen(c[2])

RECURSIVE StrLen(_)
StrLen(chunks) ==
  IF chunks = <<>> THEN 0 ELSE ChunkLen(Head(chunks)) + StrLen(Tail(chunks))

-----------------------------------------------------------------------------
(* utils/serialization.ts *)

\* the order of Array.prototype.sort() (UTF-16 code units) on the keys in use
KeyOrder ==
  [a |-> 0, amount |-> 1, b |-> 2, borrowerWallet |-> 3, createdAt |-> 4,
   description |-> 5, dueDate |-> 6, invoiceId |-> 7, issuerName |-> 8,
   issuerWallet |-> 9, lenderWallet |-> 10, loanDurationDays |-> 11,
   loanId |-> 12, recipientWallet |-> 13, requestedAmount |-> 14, type |-> 15]

KeyRank(k) == KeyOrder[k]

Get(obj, k) ==
  LET hits == SelectSeq(obj, LAMBDA p : p[1] = k)
  IN IF hits = <<>> THEN Undefined ELSE hits[1][2]

\* {...obj, k: v}: an existing key keeps its place, a new key goes last
Set(obj, k, v) ==
  IF \E i \in 1..Len(obj) : obj[i][1] = k
  THEN [i \in 1..Len(obj) |-> IF obj[i][1] = k THEN <<k, v>> ELSE obj[i]]
  ELSE Append(obj, <<k, v>>)

\* variant: the keys of the record itself are sorted, nested values are not
sortObjectTopLevel(obj) == SortSeq(obj, LAMBDA p, q : KeyRank(p[1]) < KeyRank(q[1]))

(* A record is the sequence of its members in insertion order. sortValue   *)
(* is sortObject's case analysis on a member's value (array, object, any   *)
(* other value); sortObject is its object branch: Object.keys(value)       *)
(* .sort(), then the sorted values in that order.                          *)
RECURSIVE sortObject(_), sortValue(_)
sortValue(value) ==
  IF value[1] = "a" THEN Arr([i \in 1..Len(value[2]) |-> sortValue(value[2][i])])
  ELSE IF value[1] = "o" THEN Obj(sortObject(value[2]))
  ELSE value

sortObject(obj) ==
  SortSeq([i \in 1..Len(obj) |-> <<obj[i][1], sortValue(obj[i][2])>>],
          LAMBDA p, q : KeyRank(p[1]) < KeyRank(q[1]))

(* JSON.stringify: keys in the object's order, undefined members left out. *)
(* A nested array or object is one token of the text, holding the text of  *)
(* its elements in their order, or of its members.                         *)
RECURSIVE JSONstringify(_), JSONvalue(_)
JSONvalue(value) ==
  IF value[1] = "a" THEN Arr([i \in 1..Len(value[2]) |-> JSONvalue(value[2][i])])
  ELSE IF value[1] = "o" THEN Obj(JSONstringify(value[2]))
  ELSE value

JSONstringify(obj) ==
  LET defined == SelectSeq(obj, LAMBDA p : p[2] # Undefined)
  IN [i \in 1..(2 * Len(defined)) |->
        IF i % 2 = 1 THEN Word(defined[(i + 1) \div 2][1])
        ELSE JSONvalue(defined[i \div 2][2])]

stableStringify(obj) == JSONstringify(sortObject(obj))

\* variant: the digest is salted with the time of the call
sha256HexSalted(text) == Str(<<<<"h", text, now>>>>)

sha256Hex(text) == Str(<<<<"h", text>>>>)

CanParse(text) ==
  /\ Len(text) % 2 = 0
  /\ \A i \in 1..Len(text) : (i % 2 = 1) => text[i][1] = "w"

JSONparse(text) == [i \in 1..(Len(text) \div 2) |-> <<text[2 * i - 1][2], text[2 * i]>>]

\* a needle never spans two JSON tokens (quotes and colons separate them):
\* it lies inside one string value, or it is one key / number token
InToken(tok, n) ==
  IF tok[1] = "s"
  THEN \E i \in 0..(Len(tok[2]) - Len(n)) : \A j \in 1..Len(n) : tok[2][i + j] = n[j]
  ELSE n = <<tok>>

includes(text, needle) == \E i \in 1..Len(text) : InToken(text[i], needle[2])

toLowerCase(w) ==
  CASE w = "Repay" -> "repay"
    [] w = "Lendify" -> "lendify"
    [] w = "loanDurationDays" -> "loandurationdays"
    [] w = "loanId" -> "loanid"
    [] w = "lenderWallet" -> "lenderwallet"
    [] w = "LenderPubkey44" -> "lenderpubkey44"
    [] w = "WalletPubkey44" -> "walletpubkey44"
    [] w = "RecipientPubkey44" -> "recipientpubkey44"
    [] OTHER -> w

WordIncludes(w, kw) ==
  CASE kw = "repay" -> w = "repay"
    [] kw = "loan" -> w \in {"loan", "loandurationdays", "loanid"}
    [] kw = "lend" -> w \in {"lend", "lendify", "lenderwallet", "lenderpubkey44"}
    [] OTHER -> FALSE

WordsOf(tok) ==
  IF tok[1] = "s" THEN {tok[2][i][2] : i \in {j \in 1..Len(tok[2]) : tok[2][j][1] = "w"}}
  ELSE IF tok[1] = "w" THEN {tok[2]}
  ELSE {}

\* memoData.toLowerCase().includes(kw)
lowerIncludes(text, kw) ==
  \E i \in 1..Len(text) : \E w \in WordsOf(text[i]) : WordIncludes(toLowerCase(w), kw)

-----------------------------------------------------------------------------
(* utils/validation.ts, invoice/InvoiceValidator.ts *)

isValidAmount(value) == IsNum(value) /\ value[2] > 0

isValidPublicKeyString(value) ==
  IsStr(value) /\ StrLen(value[2]) >= 32 /\ StrLen(value[2]) <= 44

isFutureTimestamp(ts, clock) == IsNum(ts) /\ ts[2] > clock

\* variant: the description bound is tested with >=
validateInvoiceInputAtLeast1024(input, clock) ==
  IF ~isValidAmount(Get(input, "amount")) THEN "INVALID_INPUT"
  ELSE IF ~isValidPublicKeyString(Get(input, "recipientWallet")) THEN "INVALID_INPUT"
  ELSE IF ~isFutureTimestamp(Get(input, "dueDate"), clock) THEN "INVALID_INPUT"
  ELSE IF /\ IsStr(Get(input, "description"))
          /\ Get(input, "description")[2] # <<>>
          /\ StrLen(Get(input, "description")[2]) >= 1024 THEN "INVALID_INPUT"
  ELSE ""

validateInvoiceInput(input, clock) ==
  IF ~isValidAmount(Get(input, "amount")) THEN "INVALID_INPUT"
  ELSE IF ~isValidPublicKeyString(Get(input, "recipientWallet")) THEN "INVALID_INPUT"
  ELSE IF ~isFutureTimestamp(Get(input, "dueDate"), clock) THEN "INVALID_INPUT"
  ELSE IF /\ IsStr(Get(input, "description"))
          /\ Get(input, "description")[2] # <<>>
          /\ StrLen(Get(input, "description")[2]) > 1024 THEN "INVALID_INPUT"
  ELSE ""

-----------------------------------------------------------------------------
(* The ledger gateway: an entry is the instruction list of a confirmed     *)
(* transaction; its signature is its position in the ledger.               *)

MemoIx(text) == <<MemoProgramId, text>>
TransferIx(from, to, lamports) == <<SystemProgramId, <<Word("transfer"), from, to, Num(lamports)>>>>

HasMemo(tx) == \E i \in 1..Len(tx) : tx[i][1] = MemoProgramId

\* instructions.find(ix => ix.programId.toBase58() === Memo...): the first one
FindMemo(tx) == tx[CHOOSE i \in 1..Len(tx) :
                     /\ tx[i][1] = MemoProgramId
                     /\ \A j \in 1..(i - 1) : tx[j][1] # MemoProgramId][2]

\* what one getTransaction call can give besides the entry: null (the entry is
\* not available at the 'confirmed' commitment), or a rejected promise
Null == <<>>
Rejected == <<<<"rejected">>>>

\* the fetch that goes wrong during one call: <<signature, "null" | "rejects">>
NoFault == <<0, "">>

\* the ledger as the connection serves it during one call
Served(L, fault) ==
  [sig \in 1..Len(L) |->
     IF sig # fault[1] THEN L[sig]
     ELSE IF fault[2] = "null" THEN Null ELSE Rejected]

HasTransaction(L, sig) == sig \in 1..Len(L) /\ L[sig] # Null
getTransaction(L, sig) == L[sig]

\* getSignaturesForAddress(owner, {limit}): newest first, at most limit
getSignaturesForAddress(L, limit) ==
  [i \in 1..(IF Len(L) < limit THEN Len(L) ELSE limit) |-> Len(L) + 1 - i]

-----------------------------------------------------------------------------
(* invoice/InvoiceService.ts: verifyInvoice *)

\* variant: issuerName is left out of the recomputed subset
RecomputeIdWithoutIssuerName(parsed) ==
  sha256Hex(stableStringify(<<
    <<"amount", Get(parsed, "amount")>>,
    <<"recipientWallet", Get(parsed, "recipientWallet")>>,
    <<"dueDate", Get(parsed, "dueDate")>>,
    <<"description", Get(parsed, "description")>>,
    <<"issuerWallet", Get(parsed, "issuerWallet")>>,
    <<"createdAt", Get(parsed, "createdAt")>> >>))

RecomputeId(parsed) ==
  sha256Hex(stableStringify(<<
    <<"amount", Get(parsed, "amount")>>,
    <<"recipientWallet", Get(parsed, "recipientWallet")>>,
    <<"dueDate", Get(parsed, "dueDate")>>,
    <<"description", Get(parsed, "description")>>,
    <<"issuerName", Get(parsed, "issuerName")>>,
    <<"issuerWallet", Get(parsed, "issuerWallet")>>,
    <<"createdAt", Get(parsed, "createdAt")>> >>))

VResult(err, verified, id, sig) ==
  [err |-> err, verified |-> verified, invoiceId |-> id, txSignature |-> sig]

verifyBySignature(L, invoiceId, txSignature) ==
  IF ~HasTransaction(L, txSignature) THEN VResult("", FALSE, Undefined, 0)
  ELSE LET confirmed == getTransaction(L, txSignature) IN
    IF confirmed = Rejected THEN VResult("RpcError", FALSE, Undefined, 0)
    ELSE IF ~HasMemo(confirmed) THEN VResult("", FALSE, Undefined, 0)
    ELSE LET memoData == FindMemo(confirmed) IN
      IF ~CanParse(memoData) THEN VResult("SyntaxError", FALSE, Undefined, 0)
      ELSE LET calcId == RecomputeId(JSONparse(memoData)) IN
        IF invoiceId # Undefined /\ calcId # invoiceId
        THEN VResult("", FALSE, Undefined, 0)
        ELSE VResult("", TRUE, calcId, txSignature)

\* variant: the search goes on past a match and returns the oldest one
RECURSIVE verifyScanOldestMatch(_, _, _)
verifyScanOldestMatch(L, txs, invoiceId) ==
  IF txs = <<>> THEN VResult("", FALSE, Undefined, 0)
  ELSE LET full == getTransaction(L, Head(txs))
           older == verifyScanOldestMatch(L, Tail(txs), invoiceId)
       IN IF older.verified \/ full = Null \/ ~HasMemo(full) THEN older
          ELSE IF RecomputeId(JSONparse(FindMemo(full))) = invoiceId
               THEN VResult("", TRUE, invoiceId, Head(txs))
               ELSE older

RECURSIVE verifyScan(_, _, _)
verifyScan(L, txs, invoiceId) ==
  IF txs = <<>> THEN VResult("", FALSE, Undefined, 0)
  ELSE LET full == getTransaction(L, Head(txs)) IN
    IF full = Rejected THEN VResult("RpcError", FALSE, Undefined, 0)
    ELSE IF full = Null \/ ~HasMemo(full) THEN verifyScan(L, Tail(txs), invoiceId)
    ELSE LET memoData == FindMemo(full) IN
      IF ~CanParse(memoData) THEN VResult("SyntaxError", FALSE, Undefined, 0)
      ELSE LET calcId == RecomputeId(JSONparse(memoData)) IN
        IF calcId = invoiceId THEN VResult("", TRUE, calcId, Head(txs))
        ELSE verifyScan(L, Tail(txs), invoiceId)

\* variant: the by-id search lists the owner's whole history
verifyInvoiceWholeHistory(L, pk, invoiceId, txSignature) ==
  IF txSignature = 0 /\ invoiceId = Undefined
  THEN VResult("INVALID_INPUT", FALSE, Undefined, 0)
  ELSE IF txSignature # 0 THEN verifyBySignature(L, invoiceId, txSignature)
  ELSE IF pk = Undefined THEN VResult("TypeError", FALSE, Undefined, 0)
  ELSE verifyScan(L, getSignaturesForAddress(L, Len(L)), invoiceId)

verifyInvoice(L, pk, invoiceId, txSignature) ==
  IF txSignature = 0 /\ invoiceId = Undefined
  THEN VResult("INVALID_INPUT", FALSE, Undefined, 0)
  ELSE IF txSignature # 0 THEN verifyBySignature(L, invoiceId, txSignature)
  ELSE IF pk = Undefined THEN VResult("TypeError", FALSE, Undefined, 0)
  ELSE verifyScan(L, getSignaturesForAddress(L, VerifyLimit), invoiceId)

-----------------------------------------------------------------------------
(* invoice/InvoiceService.ts: getInvoiceStatus *)

\* variant: a "loan" match returns 'financed' at once
RECURSIVE invoiceScanLoanReturns(_, _, _, _)
invoiceScanLoanReturns(L, sigs, invoiceId, status) ==
  IF sigs = <<>> THEN status
  ELSE LET full == getTransaction(L, Head(sigs)) IN
    IF ~HasMemo(full) THEN invoiceScanLoanReturns(L, Tail(sigs), invoiceId, status)
    ELSE LET memoData == FindMemo(full) IN
      IF ~includes(memoData, invoiceId) THEN invoiceScanLoanReturns(L, Tail(sigs), invoiceId, status)
      ELSE IF lowerIncludes(memoData, "repay") THEN "settled"
      ELSE IF lowerIncludes(memoData, "loan") THEN "financed"
      ELSE invoiceScanLoanReturns(L, Tail(sigs), invoiceId, status)

RECURSIVE invoiceScan(_, _, _, _)
invoiceScan(L, sigs, invoiceId, status) ==
  IF sigs = <<>> THEN status
  ELSE LET full == getTransaction(L, Head(sigs)) IN
    IF full = Rejected THEN "RpcError"
    ELSE IF full = Null \/ ~HasMemo(full) THEN invoiceScan(L, Tail(sigs), invoiceId, status)
    ELSE LET memoData == FindMemo(full) IN
      IF ~includes(memoData, invoiceId) THEN invoiceScan(L, Tail(sigs), invoiceId, status)
      ELSE IF lowerIncludes(memoData, "repay") THEN "settled"
      ELSE IF lowerIncludes(memoData, "loan") THEN invoiceScan(L, Tail(sigs), invoiceId, "financed")
      ELSE invoiceScan(L, Tail(sigs), invoiceId, status)

SResult(err, status) == [err |-> err, status |-> status]

\* variant: the keyword scan runs without the existence check
getInvoiceStatusUnverified(L, pk, invoiceId) ==
  IF pk = Undefined THEN [err |-> "TypeError", status |-> ""]
  ELSE [err |-> "",
        status |-> invoiceScan(L, getSignaturesForAddress(L, StatusLimit), invoiceId, "verified")]

getInvoiceStatus(L, pk, invoiceId) ==
  LET verify == verifyInvoice(L, pk, invoiceId, 0) IN
  IF verify.err # "" THEN SResult(verify.err, "")
  ELSE IF ~verify.verified THEN SResult("", "not_found")
  ELSE LET status == invoiceScan(L, getSignaturesForAddress(L, StatusLimit), invoiceId, "verified")
       IN IF status = "RpcError" THEN SResult("RpcError", "") ELSE SResult("", status)

-----------------------------------------------------------------------------
(* loan/LoanService.ts: getLoanStatus *)

\* variant: the "repay" keyword is tested before the loanId
RECURSIVE loanScanRepayAnywhere(_, _, _, _, _)
loanScanRepayAnywhere(L, sigs, loanId, found, status) ==
  IF sigs = <<>> THEN (IF found THEN status ELSE "not_found")
  ELSE LET full == getTransaction(L, Head(sigs)) IN
    IF ~HasMemo(full) THEN loanScanRepayAnywhere(L, Tail(sigs), loanId, found, status)
    ELSE LET memoData == FindMemo(full) IN
      IF lowerIncludes(memoData, "repay") THEN "repaid"
      ELSE IF ~includes(memoData, loanId) THEN loanScanRepayAnywhere(L, Tail(sigs), loanId, found, status)
      ELSE IF lowerIncludes(memoData, "loan") \/ lowerIncludes(memoData, "lend")
           THEN loanScanRepayAnywhere(L, Tail(sigs), loanId, TRUE, "active")
      ELSE loanScanRepayAnywhere(L, Tail(sigs), loanId, TRUE, "requested")

\* variant: the "loan" / "lend" keywords are tested before "repay"
RECURSIVE loanScanLoanFirst(_, _, _, _, _)
loanScanLoanFirst(L, sigs, loanId, found, status) ==
  IF sigs = <<>> THEN (IF found THEN status ELSE "not_found")
  ELSE LET full == getTransaction(L, Head(sigs)) IN
    IF ~HasMemo(full) THEN loanScanLoanFirst(L, Tail(sigs), loanId, found, status)
    ELSE LET memoData == FindMemo(full) IN
      IF ~includes(memoData, loanId) THEN loanScanLoanFirst(L, Tail(sigs), loanId, found, status)
      ELSE IF lowerIncludes(memoData, "loan") \/ lowerIncludes(memoData, "lend")
           THEN loanScanLoanFirst(L, Tail(sigs), loanId, TRUE, "active")
      ELSE IF lowerIncludes(memoData, "repay") THEN "repaid"
      ELSE loanScanLoanFirst(L, Tail(sigs), loanId, TRUE, "requested")

\* variant: the newest entry with the loanId decides between active and requested
RECURSIVE loanScanNewestWins(_, _, _, _, _)
loanScanNewestWins(L, sigs, loanId, found, status) ==
  IF sigs = <<>> THEN (IF found THEN status ELSE "not_found")
  ELSE LET full == getTransaction(L, Head(sigs)) IN
    IF full = Null \/ ~HasMemo(full) THEN loanScanNewestWins(L, Tail(sigs), loanId, found, status)
    ELSE LET memoData == FindMemo(full) IN
      IF ~includes(memoData, loanId) THEN loanScanNewestWins(L, Tail(sigs), loanId, found, status)
      ELSE IF lowerIncludes(memoData, "repay") THEN "repaid"
      ELSE IF found THEN loanScanNewestWins(L, Tail(sigs), loanId, found, status)
      ELSE IF lowerIncludes(memoData, "loan") \/ lowerIncludes(memoData, "lend")
           THEN loanScanNewestWins(L, Tail(sigs), loanId, TRUE, "active")
      ELSE loanScanNewestWins(L, Tail(sigs), loanId, TRUE, "requested")

\* the loop's pair (found, status); a 'repay' match returns at once
RECURSIVE loanScan(_, _, _, _, _)
loanScan(L, sigs, loanId, found, status) ==
  IF sigs = <<>> THEN (IF found THEN status ELSE "not_found")
  ELSE LET full == getTransaction(L, Head(sigs)) IN
    IF full = Rejected THEN "RpcError"
    ELSE IF full = Null \/ ~HasMemo(full) THEN loanScan(L, Tail(sigs), loanId, found, status)
    ELSE LET memoData == FindMemo(full) IN
      IF ~includes(memoData, loanId) THEN loanScan(L, Tail(sigs), loanId, found, status)
      ELSE IF lowerIncludes(memoData, "repay") THEN "repaid"
      ELSE IF lowerIncludes(memoData, "loan") \/ lowerIncludes(memoData, "lend")
           THEN loanScan(L, Tail(sigs), loanId, TRUE, "active")
      ELSE loanScan(L, Tail(sigs), loanId, TRUE, "requested")

getLoanStatus(L, pk, loanId) ==
  IF pk = Undefined THEN SResult("TypeError", "")
  ELSE LET status == loanScan(L, getSignaturesForAddress(L, LoanLimit), loanId, FALSE, "not_found")
       IN IF status = "RpcError" THEN SResult("RpcError", "") ELSE SResult("", status)

-----------------------------------------------------------------------------
(* The calls an operation makes on the wallet and on the connection, in    *)
(* order, each with its outcome: "ok", "null", "throws" or "rejects"       *)

Call(method, outcome) == <<method, outcome>>

FetchCall(L, sig) ==
  Call("getTransaction",
       IF ~HasTransaction(L, sig) THEN "null"
       ELSE IF L[sig] = Rejected THEN "rejects" ELSE "ok")

\* the listed signatures up to the first one at which the loop is left
ScanPrefix(sigs, Stop(_)) ==
  LET hits == {i \in 1..Len(sigs) : Stop(sigs[i])}
  IN IF hits = {} THEN sigs
     ELSE SubSeq(sigs, 1, CHOOSE i \in hits : \A j \in hits : i <= j)

\* the listed signatures down to the one the loop returned
DownTo(sigs, last) == SelectSeq(sigs, LAMBDA sig : sig >= last)

ScanCalls(L, fetched) ==
  <<Call("getSignaturesForAddress", "ok")>>
    \o [i \in 1..Len(fetched) |-> FetchCall(L, fetched[i])]

\* verifyInvoice by id leaves its loop on a rejected fetch, a memo that does
\* not parse, or a match
verifyStops(L, sig, invoiceId) ==
  \/ L[sig] = Rejected
  \/ /\ L[sig] # Null
     /\ HasMemo(L[sig])
     /\ \/ ~CanParse(FindMemo(L[sig]))
        \/ RecomputeId(JSONparse(FindMemo(L[sig]))) = invoiceId

\* the keyword scans leave their loop on a rejected fetch or a "repay" match
keywordStops(L, sig, id) ==
  \/ L[sig] = Rejected
  \/ /\ L[sig] # Null
     /\ HasMemo(L[sig])
     /\ includes(FindMemo(L[sig]), id)
     /\ lowerIncludes(FindMemo(L[sig]), "repay")

\* the calls of verifyInvoice, given what it returned: a by-id search that
\* returned a match fetched the listing down to that entry, one that returned
\* no match fetched all of it, one that threw fetched down to the throwing entry
verifyInvoiceCalls(L, pk, invoiceId, txSignature, verify) ==
  IF txSignature = 0 /\ invoiceId = Undefined THEN <<>>
  ELSE IF txSignature # 0 THEN <<FetchCall(L, txSignature)>>
  ELSE IF pk = Undefined THEN <<Call("getSignaturesForAddress", "throws")>>
  ELSE LET txs == getSignaturesForAddress(L, VerifyLimit) IN
       ScanCalls(L, IF verify.err # ""
                    THEN ScanPrefix(txs, LAMBDA sig : verifyStops(L, sig, invoiceId))
                    ELSE IF verify.verified THEN DownTo(txs, verify.txSignature)
                    ELSE txs)

getInvoiceStatusCalls(L, pk, invoiceId, verify) ==
  verifyInvoiceCalls(L, pk, invoiceId, 0, verify)
    \o IF verify.err # "" \/ ~verify.verified THEN <<>>
       ELSE ScanCalls(L, ScanPrefix(getSignaturesForAddress(L, StatusLimit),
                                    LAMBDA sig : keywordStops(L, sig, invoiceId)))

getLoanStatusCalls(L, pk, loanId) ==
  IF pk = Undefined THEN <<Call("getSignaturesForAddress", "throws")>>
  ELSE ScanCalls(L, ScanPrefix(getSignaturesForAddress(L, LoanLimit),
                               LAMBDA sig : keywordStops(L, sig, loanId)))

\* variant: a failed send is attempted a second time
submitCallsRetried(outcome) ==
  CASE outcome = "sign_failed" -> <<Call("signTransaction", "rejects")>>
    [] outcome = "send_failed" ->
         <<Call("signTransaction", "ok"), Call("sendRawTransaction", "rejects"),
           Call("sendRawTransaction", "rejects")>>
    [] outcome \in {"confirm_failed_landed", "confirm_failed_dropped"} ->
         <<Call("signTransaction", "ok"), Call("sendRawTransaction", "ok"),
           Call("confirmTransaction", "rejects")>>
    [] OTHER ->
         <<Call("signTransaction", "ok"), Call("sendRawTransaction", "ok"),
           Call("confirmTransaction", "ok")>>

\* try { signTransaction; sendRawTransaction; confirmTransaction }
submitCalls(outcome) ==
  CASE outcome = "sign_failed" -> <<Call("signTransaction", "rejects")>>
    [] outcome = "send_failed" ->
         <<Call("signTransaction", "ok"), Call("sendRawTransaction", "rejects")>>
    [] outcome \in {"confirm_failed_landed", "confirm_failed_dropped"} ->
         <<Call("signTransaction", "ok"), Call("sendRawTransaction", "ok"),
           Call("confirmTransaction", "rejects")>>
    [] OTHER ->
         <<Call("signTransaction", "ok"), Call("sendRawTransaction", "ok"),
           Call("confirmTransaction", "ok")>>

-----------------------------------------------------------------------------
(* The record builders: createInvoice lines 46-53, requestLoan lines 29-36, *)
(* repayLoan lines 20-24                                                   *)

\* variant: the identifier is taken before createdAt is stamped on the payload
buildInvoicePayloadHashUnstamped(input, issuerWallet, clock) ==
  LET unstamped == Set(input, "issuerWallet", issuerWallet)
      payload == Set(unstamped, "createdAt", Num(clock))
  IN [payload |-> stableStringify(payload), id |-> sha256Hex(stableStringify(unstamped))]

buildInvoicePayload(input, issuerWallet, clock) ==
  LET payload == Set(Set(input, "issuerWallet", issuerWallet), "createdAt", Num(clock))
      serialized == stableStringify(payload)
  IN [payload |-> serialized, id |-> sha256Hex(serialized)]

buildLoanPayload(input, borrowerWallet, clock) ==
  LET payload == Set(Set(input, "borrowerWallet", borrowerWallet), "createdAt", Num(clock))
      serialized == stableStringify(payload)
  IN [payload |-> serialized, id |-> sha256Hex(serialized)]

buildRepayMemo(loanId) ==
  JSONstringify(<< <<"type", Text1("repay")>>, <<"loanId", loanId>> >>)

-----------------------------------------------------------------------------
(* Inputs *)

WalletKey == Text1("WalletPubkey44")
NonexistentId == Text1("nonexistent-id")

IsCreation(tx) == Len(tx) = 1 /\ tx[1][1] = MemoProgramId

\* identifiers a caller holds: those returned for the oldest MaxRefs entries
\* (written into later entries and queried), and the one just returned (queried)
KnownIds ==
  {sha256Hex(FindMemo(ledger[i])) :
     i \in {j \in 1..Len(ledger) : j <= MaxRefs /\ IsCreation(ledger[j])}}

Returned == ret.op \in {"createInvoice", "requestLoan"} /\ ret.err = ""

Optional(k, v) == IF v = Undefined THEN <<>> ELSE <<<<k, v>>>>

InvoiceInput(amount, recipient, due, description, issuerName) ==
  Optional("description", description)
    \o << <<"recipientWallet", recipient>>, <<"amount", amount>>, <<"dueDate", due>> >>
    \o Optional("issuerName", issuerName)

TextOptions ==
  {<<Undefined, Undefined>>}
    \cup {<<Str(id[2]), Undefined>> : id \in KnownIds}
    \cup {<<Str(<<Word("Repay")>> \o id[2]), Text1("Lendify")>> : id \in KnownIds}

InvoiceInputs ==
  {InvoiceInput(Num(1), Text1("RecipientPubkey44"), Num(now + 1), t[1], t[2]) : t \in TextOptions}
    \cup {InvoiceInput(Num(0), Text1("RecipientPubkey44"), Num(now + 1), Undefined, Undefined),
          InvoiceInput(Num(1), Text1("short"), Num(now + 1), Undefined, Undefined),
          InvoiceInput(Num(1), Text1("RecipientPubkey44"), Num(now), Undefined, Undefined)}

LoanRequest(invoiceId, requestedAmount, lenderWallet) ==
  Optional("invoiceId", invoiceId)
    \o << <<"requestedAmount", requestedAmount>>, <<"loanDurationDays", Num(30)>> >>
    \o Optional("lenderWallet", lenderWallet)

LoanRequests ==
  {LoanRequest(id, Num(2), Undefined) : id \in KnownIds \cup {NonexistentId}}
    \cup {LoanRequest(Undefined, Num(2), Undefined),
          LoanRequest(NonexistentId, Num(0), Text1("LenderPubkey44"))}

\* the loanId of a repayment: one the caller holds or, while there is none, any
RepayIds == IF KnownIds = {} THEN {NonexistentId} ELSE KnownIds

QueryIds == KnownIds \cup {NonexistentId} \cup (IF Returned THEN {ret.id} ELSE {})

\* {invoiceId?, txSignature?}; 0 stands for "no txSignature"
VerifyQueries ==
  {<<Undefined, 0>>}
    \cup {<<id, 0>> : id \in QueryIds}
    \cup {<<id, sig>> : id \in KnownIds \cup {Undefined},
                       sig \in {j \in 1..Len(ledger) : j <= MaxRefs}}
    \cup (IF Returned THEN {<<ret.id, ret.sig>>} ELSE {})
    \cup {<<Undefined, Len(ledger) + 1>>}

-----------------------------------------------------------------------------
(* The state machine *)

Ret(op, err, id, sig, verified, status, argId, argSig) ==
  [op |-> op, err |-> err, id |-> id, sig |-> sig, verified |-> verified,
   status |-> status, argId |-> argId, argSig |-> argSig]

Init ==
  /\ ledger = <<>>
  /\ now = 0
  /\ publicKey \in {Undefined, WalletKey}
  /\ ret = Ret("init", "", Undefined, 0, FALSE, "", Undefined, 0)
  /\ calls = <<>>

Outcomes == {"ok", "sign_failed", "send_failed", "confirm_failed_landed", "confirm_failed_dropped"}

Landed(outcome) == outcome \in {"ok", "confirm_failed_landed"}

\* variant: the signed transaction is sent a second time
SubmitTwice(op, tx, id, outcome) ==
  /\ ledger' = IF Landed(outcome) THEN Append(Append(ledger, tx), tx) ELSE ledger
  /\ calls' = submitCalls(outcome)
  /\ ret' = IF outcome = "ok"
            THEN Ret(op, "", id, Len(ledger) + 1, FALSE, "", Undefined, 0)
            ELSE Ret(op, "TRANSACTION_FAILED", Undefined, 0, FALSE, "", Undefined, 0)

\* try { sign; sendRawTransaction; confirmTransaction } catch -> TRANSACTION_FAILED
Submit(op, tx, id, outcome) ==
  /\ ledger' = IF Landed(outcome) THEN Append(ledger, tx) ELSE ledger
  /\ calls' = submitCalls(outcome)
  /\ ret' = IF outcome = "ok"
            THEN Ret(op, "", id, Len(ledger) + 1, FALSE, "", Undefined, 0)
            ELSE Ret(op, "TRANSACTION_FAILED", Undefined, 0, FALSE, "", Undefined, 0)

Fail(op, err) ==
  /\ ret' = Ret(op, err, Undefined, 0, FALSE, "", Undefined, 0)
  /\ calls' = <<>>
  /\ UNCHANGED ledger

createInvoice(input, outcome) ==
  /\ Len(ledger) < MaxLedger
  /\ UNCHANGED <<now, publicKey>>
  /\ IF validateInvoiceInput(input, now) # "" THEN Fail("createInvoice", "INVALID_INPUT")
     ELSE IF publicKey = Undefined THEN Fail("createInvoice", "WALLET_NOT_CONNECTED")
     ELSE \E built \in {buildInvoicePayload(input, publicKey, now)} :
            Submit("createInvoice", <<MemoIx(built.payload)>>, built.id, outcome)

requestLoan(input, outcome) ==
  /\ Len(ledger) < MaxLedger
  /\ UNCHANGED <<now, publicKey>>
  /\ IF publicKey = Undefined THEN Fail("requestLoan", "WALLET_NOT_CONNECTED")
     ELSE IF Get(input, "invoiceId") = Undefined THEN Fail("requestLoan", "INVALID_INPUT")
     ELSE IF ~(Get(input, "requestedAmount")[2] > 0) THEN Fail("requestLoan", "INVALID_INPUT")
     ELSE \E built \in {buildLoanPayload(input, publicKey, now)} :
            Submit("requestLoan", <<MemoIx(built.payload)>>, built.id, outcome)

\* variant: lenderPubkey is tested before the wallet
repayLoanLenderFirst(lenderPubkey, loanId, amountSOL, outcome) ==
  /\ Len(ledger) < MaxLedger
  /\ UNCHANGED <<now, publicKey>>
  /\ IF lenderPubkey = Undefined THEN Fail("repayLoan", "INVALID_INPUT")
     ELSE IF publicKey = Undefined THEN Fail("repayLoan", "WALLET_NOT_CONNECTED")
     ELSE \E transferIx \in {TransferIx(publicKey, lenderPubkey, amountSOL * 1000000000)},
             memoIx \in {MemoIx(buildRepayMemo(loanId))} :
             /\ ledger' = IF Landed(outcome) THEN Append(ledger, <<transferIx, memoIx>>) ELSE ledger
             /\ calls' = submitCalls(outcome)
             /\ ret' = IF outcome = "ok"
                       THEN Ret("repayLoan", "", Undefined, Len(ledger) + 1, FALSE, "", loanId, 0)
                       ELSE Ret("repayLoan", "TRANSACTION_FAILED", Undefined, 0, FALSE, "", loanId, 0)

repayLoan(lenderPubkey, loanId, amountSOL, outcome) ==
  /\ Len(ledger) < MaxLedger
  /\ UNCHANGED <<now, publicKey>>
  /\ IF publicKey = Undefined THEN Fail("repayLoan", "WALLET_NOT_CONNECTED")
     ELSE IF lenderPubkey = Undefined THEN Fail("repayLoan", "INVALID_INPUT")
     ELSE \E transferIx \in {TransferIx(publicKey, lenderPubkey, amountSOL * 1000000000)},
             memoIx \in {MemoIx(buildRepayMemo(loanId))} :
             /\ ledger' = IF Landed(outcome) THEN Append(ledger, <<transferIx, memoIx>>) ELSE ledger
             /\ calls' = submitCalls(outcome)
             /\ ret' = IF outcome = "ok"
                       THEN Ret("repayLoan", "", Undefined, Len(ledger) + 1, FALSE, "", loanId, 0)
                       ELSE Ret("repayLoan", "TRANSACTION_FAILED", Undefined, 0, FALSE, "", loanId, 0)

VerifyInvoice(invoiceId, txSignature, fault) ==
  /\ \E L \in {Served(ledger, fault)} :
       \E r \in {verifyInvoice(L, publicKey, invoiceId, txSignature)} :
         /\ ret' = Ret("verifyInvoice", r.err, r.invoiceId, r.txSignature, r.verified, "",
                       invoiceId, txSignature)
         /\ calls' = verifyInvoiceCalls(L, publicKey, invoiceId, txSignature, r)
  /\ UNCHANGED <<ledger, now, publicKey>>

GetInvoiceStatus(invoiceId, fault) ==
  /\ \E L \in {Served(ledger, fault)} :
       \E r \in {getInvoiceStatus(L, publicKey, invoiceId)},
          verify \in {verifyInvoice(L, publicKey, invoiceId, 0)} :
         /\ ret' = Ret("getInvoiceStatus", r.err, Undefined, 0, FALSE, r.status, invoiceId, 0)
         /\ calls' = getInvoiceStatusCalls(L, publicKey, invoiceId, verify)
  /\ UNCHANGED <<ledger, now, publicKey>>

GetLoanStatus(loanId, fault) ==
  /\ \E L \in {Served(ledger, fault)} :
       /\ \E r \in {getLoanStatus(L, publicKey, loanId)} :
            ret' = Ret("getLoanStatus", r.err, Undefined, 0, FALSE, r.status, loanId, 0)
       /\ calls' = getLoanStatusCalls(L, publicKey, loanId)
  /\ UNCHANGED <<ledger, now, publicKey>>

Tick ==
  /\ now < MaxNow
  /\ now' = now + 1
  /\ UNCHANGED <<ledger, publicKey, ret, calls>>

Next ==
  \/ \E input \in InvoiceInputs, outcome \in Outcomes : createInvoice(input, outcome)
  \/ \E input \in LoanRequests, outcome \in Outcomes : requestLoan(input, outcome)
  \/ \E lender \in {Undefined, Text1("LenderPubkey44")}, loanId \in RepayIds,
        amountSOL \in {0, 1}, outcome \in Outcomes : repayLoan(lender, loanId, amountSOL, outcome)
  \/ \E q \in VerifyQueries : VerifyInvoice(q[1], q[2], NoFault)
  \/ \E invoiceId \in QueryIds : GetInvoiceStatus(invoiceId, NoFault)
  \/ \E loanId \in QueryIds : GetLoanStatus(loanId, NoFault)
  \/ Tick

Spec == Init /\ [][Next]_vars

-----------------------------------------------------------------------------
(* The same services on a history that other programs of the owner write   *)
(* to as well, behind a connection that can fail a fetch. The scans read   *)
(* every entry getSignaturesForAddress lists for the owner, whoever wrote   *)
(* it.                                                                     *)

\* an entry of another program: a memo that is plain text, not JSON
ForeignMemo ==
  /\ Len(ledger) < MaxLedger
  /\ ledger' = Append(ledger, <<MemoIx(<<Word("gm")>>)>>)
  /\ ret' = Ret("external", "", Undefined, 0, FALSE, "", Undefined, 0)
  /\ calls' = <<>>
  /\ UNCHANGED <<now, publicKey>>

\* an entry of another program: a transfer to the owner, no memo instruction
ForeignTransfer ==
  /\ Len(ledger) < MaxLedger
  /\ ledger' = Append(ledger, <<TransferIx(Text1("LenderPubkey44"), WalletKey, 1)>>)
  /\ ret' = Ret("external", "", Undefined, 0, FALSE, "", Undefined, 0)
  /\ calls' = <<>>
  /\ UNCHANGED <<now, publicKey>>

\* at most one fetch of a call goes wrong, on one of the two newest entries
Faults ==
  {NoFault} \cup {<<sig, kind>> : sig \in {i \in 1..Len(ledger) : i + 2 > Len(ledger)},
                                  kind \in {"null", "rejects"}}

NextUnreliable ==
  \/ createInvoice(InvoiceInput(Num(1), Text1("RecipientPubkey44"), Num(now + 1),
                                Undefined, Undefined), "ok")
  \/ \E id \in KnownIds : requestLoan(LoanRequest(id, Num(2), Undefined), "ok")
  \/ \E loanId \in RepayIds : repayLoan(Text1("LenderPubkey44"), loanId, 1, "ok")
  \/ ForeignMemo
  \/ ForeignTransfer
  \/ \E q \in VerifyQueries, fault \in Faults : VerifyInvoice(q[1], q[2], fault)
  \/ \E invoiceId \in QueryIds, fault \in Faults : GetInvoiceStatus(invoiceId, fault)
  \/ \E loanId \in QueryIds, fault \in Faults : GetLoanStatus(loanId, fault)

SpecUnreliable == Init /\ [][NextUnreliable]_vars

-----------------------------------------------------------------------------
(* validateInvoiceInput alone, applied at a fixed clock to inputs around   *)
(* each of its bounds                                                      *)

ValidationInputs ==
  {InvoiceInput(amount, recipient, due, description, Undefined) :
     amount \in {Num(0 - 1), Num(0), Num(1), Num(2), Text1("short")},
     recipient \in {Str(<<Chars(31)>>), Str(<<Chars(32)>>), Str(<<Chars(44)>>),
                    Str(<<Chars(45)>>), Num(44)},
     due \in {Num(now - 1), Num(now), Num(now + 1), Num(now + 86400)},
     description \in {Undefined, Str(<<>>), Str(<<Chars(1024)>>), Str(<<Chars(1025)>>)}}

InitValidation ==
  /\ ledger = <<>>
  /\ now \in 0..MaxNow
  /\ publicKey = Undefined
  /\ ret = [op |-> "init", input |-> <<>>, err |-> ""]
  /\ calls = <<>>

Validate(input) ==
  /\ ret' = [op |-> "validateInvoiceInput", input |-> input,
             err |-> validateInvoiceInput(input, now)]
  /\ UNCHANGED <<ledger, now, publicKey, calls>>

NextValidation == \E input \in ValidationInputs : Validate(input)

SpecValidation == InitValidation /\ [][NextValidation]_vars

-----------------------------------------------------------------------------
(* stableStringify and sha256Hex on nested records: the records with at    *)
(* most MaxLeaves scalars, as members, array elements and the members of   *)
(* nested objects, in every insertion order of their keys.                 *)

MaxLeaves == 2
MaxCalls == 2

Keys == {"a", "b"}
Scalars == {Num(1), Num(2)}

\* the objects over the given values: no key twice, every insertion order
Members(values) ==
  UNION {{m \in [1..n -> Keys \X values] :
             \A i, j \in 1..n : m[i][1] = m[j][1] => i = j} :
         n \in 0..Cardinality(Keys)}

Arrays == {Arr(e) : e \in UNION {[1..n -> Scalars] : n \in 0..MaxLeaves}}

Size(value) == IF value[1] \in {"a", "o"} THEN Len(value[2]) ELSE 1

RECURSIVE Leaves(_)
Leaves(members) ==
  IF members = <<>> THEN 0 ELSE Size(Head(members)[2]) + Leaves(Tail(members))

Records ==
  {R \in Members(Scalars \cup Arrays \cup {Obj(m) : m \in Members(Scalars)}) :
     Leaves(R) <= MaxLeaves}

InitCanonical ==
  /\ ledger = <<>>
  /\ now = 0
  /\ publicKey = Undefined
  /\ ret = [op |-> "init", R |-> <<>>, text |-> <<>>, id |-> Undefined, at |-> 0,
            prevR |-> <<>>, prevText |-> <<>>, prevId |-> Undefined, n |-> 0]
  /\ calls = <<>>

\* sha256Hex(stableStringify(R)); the call before it is remembered
Identify(R) ==
  /\ ret.n < MaxCalls
  /\ \E text \in {stableStringify(R)} :
       ret' = [op |-> "identify", R |-> R, text |-> text, id |-> sha256Hex(text),
               at |-> now, prevR |-> ret.R, prevText |-> ret.text, prevId |-> ret.id,
               n |-> ret.n + 1]
  /\ UNCHANGED <<ledger, now, publicKey, calls>>

NextCanonical ==
  \/ \E R \in Records : Identify(R)
  \/ Tick

SpecCanonical == InitCanonical /\ [][NextCanonical]_vars

-----------------------------------------------------------------------------
(* credit/CreditService.ts: simulateCredit over the configured oracle      *)
(* endpoints. An endpoint's answer to the one call is given: the fetch     *)
(* rejects (network error, timeout), the response is not ok, its body is   *)
(* not JSON, or its body is a payload.                                     *)

MaxEndpoints == 2

FetchRejects == <<"rejects">>
NotOk == <<"not_ok">>
BodyNotJson == <<"bad_json">>
Body(payload) == <<"json", payload>>

Payloads ==
  {<< <<"borrowingPower", b>>, <<"riskTier", t>>, <<"expectedLoanTerms", e>> >> :
     b \in {Undefined, Num(0), Num(5)},
     t \in {Undefined, Text1("A")},
     e \in {Undefined, Obj(<< <<"maxDurationDays", Num(30)>> >>)}}

OracleAnswers == {FetchRejects, NotOk, BodyNotJson} \cup {Body(p) : p \in Payloads}

\* the outcomes of RiskModel.evaluate: a result of the evaluator, or it throws
LocalResult(b) ==
  << <<"borrowingPower", Num(b)>>, <<"riskTier", Text1("D")>>,
     <<"expectedLoanTerms", Obj(<< <<"maxDurationDays", Num(30)>> >>)>>,
     <<"source", Text1("RiskModel")>> >>

Evaluations == {<<"throws">>, <<"ok", LocalResult(0)>>, <<"ok", LocalResult(4)>>}

\* a value in a JavaScript condition
Truthy(v) == v # Undefined /\ v # Num(0) /\ v # Str(<<>>)

\* payload?.borrowingPower && payload?.riskTier && payload?.expectedLoanTerms
ShapeAccepted(payload) ==
  /\ Truthy(Get(payload, "borrowingPower"))
  /\ Truthy(Get(payload, "riskTier"))
  /\ Truthy(Get(payload, "expectedLoanTerms"))

CResult(err, result, queried) == [err |-> err, result |-> result, calls |-> queried]

\* an endpoint's answer as the outcome of the fetch call
FetchOutcome(answer) == IF answer = FetchRejects THEN "rejects" ELSE "ok"

modelEvaluate(evaluation) ==
  IF evaluation[1] = "throws"
  THEN CResult("UNKNOWN", Undefined, <<Call("evaluate", "throws")>>)
  ELSE CResult("", evaluation[2], <<Call("evaluate", "ok")>>)

RECURSIVE simulateCredit(_, _)
simulateCredit(answers, evaluation) ==
  IF answers = <<>> THEN modelEvaluate(evaluation)
  ELSE LET res == Head(answers)
           fetched == <<Call("fetch", FetchOutcome(res))>>
       IN IF res[1] = "json" /\ ShapeAccepted(res[2])
          THEN CResult("", res[2], fetched)
          ELSE LET later == simulateCredit(Tail(answers), evaluation)
               IN CResult(later.err, later.result, fetched \o later.calls)

InitCredit ==
  /\ ledger = <<>>
  /\ now = 0
  /\ publicKey = Undefined
  /\ ret = [op |-> "init", answers |-> <<>>, evaluation |-> <<"throws">>,
            err |-> "", result |-> Undefined]
  /\ calls = <<>>

SimulateCredit(answers, evaluation) ==
  /\ \E r \in {simulateCredit(answers, evaluation)} :
       /\ ret' = [op |-> "simulateCredit", answers |-> answers,
                  evaluation |-> evaluation, err |-> r.err, result |-> r.result]
       /\ calls' = r.calls
  /\ UNCHANGED <<ledger, now, publicKey>>

NextCredit ==
  \E n \in 0..MaxEndpoints : \E answers \in [1..n -> OracleAnswers] :
    \E evaluation \in Evaluations : SimulateCredit(answers, evaluation)

SpecCredit == InitCredit /\ [][NextCredit]_vars

-----------------------------------------------------------------------------
(* The end-to-end flow of one connected wallet: every call succeeds, and   *)
(* the caller passes on the identifiers the earlier calls returned.        *)

\* the invoiceIds returned by createInvoice, the loanIds returned by requestLoan
IssuedIds(key) ==
  {sha256Hex(FindMemo(ledger[i])) :
     i \in {j \in 1..Len(ledger) :
              IsCreation(ledger[j]) /\ Get(JSONparse(FindMemo(ledger[j])), key) # Undefined}}

InvoiceIds == IssuedIds("issuerWallet")
LoanIds == IssuedIds("borrowerWallet")

InitFlow == Init /\ publicKey = WalletKey

NextFlow ==
  \/ createInvoice(InvoiceInput(Num(1), Text1("RecipientPubkey44"), Num(now + 1),
                                Undefined, Undefined), "ok")
  \/ \E invoiceId \in InvoiceIds : requestLoan(LoanRequest(invoiceId, Num(2), Undefined), "ok")
  \/ \E loanId \in LoanIds : repayLoan(Text1("LenderPubkey44"), loanId, 1, "ok")
  \/ \E invoiceId \in InvoiceIds : GetInvoiceStatus(invoiceId, NoFault)
  \/ \E loanId \in LoanIds : GetLoanStatus(loanId, NoFault)
  \/ Tick

SpecFlow == InitFlow /\ [][NextFlow]_vars

-----------------------------------------------------------------------------
(* getInvoiceStatus while other callers append to the owner's history. The *)
(* call reads the history at its awaits. It lists the signatures twice,    *)
(* once inside verifyInvoice and once for the keyword scan; the fetches of *)
(* listed entries read entries that never change, so each listing and the  *)
(* loop over it is one step.                                               *)

Call2(pc, invoiceId, from, status) ==
  [op |-> "getInvoiceStatus", pc |-> pc, argId |-> invoiceId, from |-> from,
   to |-> Len(ledger), status |-> status]

InitConcurrent ==
  /\ ledger = <<>>
  /\ now = 0
  /\ publicKey = WalletKey
  /\ ret = [op |-> "init", pc |-> "idle", argId |-> Undefined, from |-> 0, to |-> 0,
            status |-> ""]
  /\ calls = <<>>

\* the entries the SDK's writers append for the owner
WrittenEntries ==
  {<<MemoIx(buildInvoicePayload(InvoiceInput(Num(1), Text1("RecipientPubkey44"), Num(now + 1),
                                             Undefined, Undefined), WalletKey, now).payload)>>}
    \cup {<<MemoIx(buildLoanPayload(LoanRequest(id, Num(2), Undefined), WalletKey, now).payload)>> :
            id \in InvoiceIds}
    \cup {<<TransferIx(WalletKey, Text1("LenderPubkey44"), 1000000000),
             MemoIx(buildRepayMemo(id))>> : id \in LoanIds}

\* another caller's write lands; the call in flight does not see it happen
OtherCallerAppends(tx) ==
  /\ Len(ledger) < MaxLedger
  /\ ledger' = Append(ledger, tx)
  /\ UNCHANGED <<now, publicKey, ret, calls>>

\* const verify = await this.verifyInvoice({ invoiceId });
\* if (!verify.verified) return 'not_found';
getInvoiceStatusVerify(invoiceId) ==
  /\ ret.pc # "scan"
  /\ \E verify \in {verifyInvoice(ledger, publicKey, invoiceId, 0)} :
       /\ ret' = IF verify.verified
                 THEN Call2("scan", invoiceId, Len(ledger), "")
                 ELSE Call2("done", invoiceId, Len(ledger), "not_found")
       /\ calls' = verifyInvoiceCalls(ledger, publicKey, invoiceId, 0, verify)
  /\ UNCHANGED <<ledger, now, publicKey>>

\* const sigs = await getSignaturesForAddress(..., { limit: 200 }); the loop; return
getInvoiceStatusScan ==
  /\ ret.pc = "scan"
  /\ ret' = Call2("done", ret.argId, ret.from,
                  invoiceScan(ledger, getSignaturesForAddress(ledger, StatusLimit),
                              ret.argId, "verified"))
  /\ calls' = calls \o ScanCalls(ledger,
                 ScanPrefix(getSignaturesForAddress(ledger, StatusLimit),
                            LAMBDA sig : keywordStops(ledger, sig, ret.argId)))
  /\ UNCHANGED <<ledger, now, publicKey>>

NextConcurrent ==
  \/ \E tx \in WrittenEntries : OtherCallerAppends(tx)
  \/ \E invoiceId \in InvoiceIds : getInvoiceStatusVerify(invoiceId)
  \/ getInvoiceStatusScan
  \/ Tick

SpecConcurrent == InitConcurrent /\ [][NextConcurrent]_vars

-----------------------------------------------------------------------------
(* Vocabulary of the properties *)

Memo(sig) == FindMemo(ledger[sig])

\* the entries a scan of the given limit lists
Window(limit) == {sig \in 1..Len(ledger) : sig > Len(ledger) - limit}

\* the entry's memo recomputes to the identifier
Recomputes(sig, id) ==
  /\ HasMemo(ledger[sig])
  /\ CanParse(Memo(sig))
  /\ RecomputeId(JSONparse(Memo(sig))) = id

\* the entry's memo contains the identifier / the keyword (in any letter case)
Mentions(sig, id) == HasMemo(ledger[sig]) /\ includes(Memo(sig), id)
Flavored(sig, kw) == HasMemo(ledger[sig]) /\ lowerIncludes(Memo(sig), kw)

Answered(op) == ret.op = op /\ ret.err = ""

\* the entry carries a memo that JSON.parse does not accept
Malformed(sig) == HasMemo(ledger[sig]) /\ ~CanParse(Memo(sig))

\* the fetches of the last call that did not give the entry
FailedFetches(outcomes) ==
  {i \in 1..Len(calls) : calls[i][1] = "getTransaction" /\ calls[i][2] \in outcomes}

SubmitOps == {"createInvoice", "requestLoan", "repayLoan"}

\* the step signed nothing, sent nothing, appended nothing, returned nothing
NothingSubmitted ==
  /\ calls' = <<>>
  /\ ledger' = ledger
  /\ ret'.id = Undefined /\ ret'.sig = 0

ById(op) == ret.op = op /\ ret.argSig = 0 /\ ret.argId # Undefined /\ publicKey # Undefined

-----------------------------------------------------------------------------
(* C1: build/verify round trip. When createInvoice has returned             *)
(* {invoiceId, txSignature} and the next call is verifyInvoice with that    *)
(* txSignature and that invoiceId, the call returns verified: true and the  *)
(* record carries the same invoiceId.                                       *)
C1_RoundTrip ==
  [][(/\ ret.op = "createInvoice" /\ ret.err = ""
      /\ ret'.op = "verifyInvoice"
      /\ ret'.argSig = ret.sig /\ ret'.argId = ret.id)
     => (ret'.err = "" /\ ret'.verified /\ ret'.id = ret.id /\ ret'.sig = ret.sig)]_vars

\* an invoice with a description and an issuerName was created and verified
C1_Witness ==
  /\ Answered("verifyInvoice") /\ ret.verified
  /\ ret.argSig # 0 /\ ret.argId = ret.id
  /\ Get(JSONparse(Memo(ret.argSig)), "description") # Undefined
  /\ Get(JSONparse(Memo(ret.argSig)), "issuerName") # Undefined
  /\ sha256Hex(Memo(ret.argSig)) = ret.argId

(* C2: in createInvoice and requestLoan the identifier returned is the hash *)
(* of exactly the memo bytes of the entry the call appended.                *)
C2_IdHashesMemo ==
  (ret.op \in {"createInvoice", "requestLoan"} /\ ret.err = "")
    => /\ HasTransaction(ledger, ret.sig)
       /\ ret.sig = Len(ledger)
       /\ IsCreation(ledger[ret.sig])
       /\ sha256Hex(Memo(ret.sig)) = ret.id

\* a loan request that names a known invoice has been submitted
C2_Witness ==
  /\ Answered("requestLoan")
  /\ ret.sig = Len(ledger) /\ ret.sig > 1
  /\ Get(JSONparse(Memo(ret.sig)), "invoiceId") \in KnownIds

(* C3: invoice lifecycle. For an invoice H1 whose own entry the verifier    *)
(* finds, getInvoiceStatus(H1) is 'verified' when no entry of the status    *)
(* scan window contains H1, 'financed' when the window holds an entry with  *)
(* H1 and "loan" and none with H1 and "repay", and 'settled' when it holds  *)
(* an entry with H1 and "repay", wherever the "loan" entry lies.            *)
Found(id) == \E sig \in Window(VerifyLimit) : Recomputes(sig, id)

RefersWith(limit, id, kw) ==
  \E sig \in Window(limit) : Mentions(sig, id) /\ Flavored(sig, kw)

C3_InvoiceLifecycle ==
  (Answered("getInvoiceStatus") /\ Found(ret.argId)) =>
    /\ (\A sig \in Window(StatusLimit) : ~Mentions(sig, ret.argId))
         => ret.status = "verified"
    /\ (RefersWith(StatusLimit, ret.argId, "loan") /\ ~RefersWith(StatusLimit, ret.argId, "repay"))
         => ret.status = "financed"
    /\ RefersWith(StatusLimit, ret.argId, "repay") => ret.status = "settled"

\* 'settled' is returned although the "loan" entry is scanned before the "repay" entry
C3_Witness ==
  /\ Answered("getInvoiceStatus") /\ Found(ret.argId) /\ ret.status = "settled"
  /\ \E newer, older \in Window(StatusLimit) :
       /\ newer > older
       /\ Mentions(newer, ret.argId) /\ Flavored(newer, "loan") /\ ~Flavored(newer, "repay")
       /\ Mentions(older, ret.argId) /\ Flavored(older, "repay")

(* C4: the status fold does not depend on the scan order. For the entries   *)
(* of the scan window, getLoanStatus and the keyword scan of                *)
(* getInvoiceStatus give the returned status for every order of scanning.   *)
Perms(n) == {p \in [1..n -> 1..n] : \A i, j \in 1..n : p[i] = p[j] => i = j}

Reordered(sigs) == {[i \in 1..Len(sigs) |-> sigs[p[i]]] : p \in Perms(Len(sigs))}

C4_OrderInsensitive ==
  /\ Answered("getLoanStatus") =>
       \A sigs \in Reordered(getSignaturesForAddress(ledger, LoanLimit)) :
          loanScan(ledger, sigs, ret.argId, FALSE, "not_found") = ret.status
  /\ (Answered("getInvoiceStatus") /\ ret.status # "not_found") =>
       \A sigs \in Reordered(getSignaturesForAddress(ledger, StatusLimit)) :
          invoiceScan(ledger, sigs, ret.argId, "verified") = ret.status

(* C5: after requestLoan, with the loan's own creation entry in the scan    *)
(* window and no other entry that references the loan, getLoanStatus(loanId)*)
(* returns 'requested'.                                                     *)
IsLoanRequest(sig) ==
  /\ IsCreation(ledger[sig])
  /\ Get(JSONparse(Memo(sig)), "borrowerWallet") # Undefined

C5_RequestedAfterRequest ==
  (/\ Answered("getLoanStatus")
   /\ \E sig \in Window(LoanLimit) : IsLoanRequest(sig) /\ sha256Hex(Memo(sig)) = ret.argId
   /\ \A sig \in Window(LoanLimit) : ~Mentions(sig, ret.argId))
    => ret.status = "requested"

(* C6: with a financing-flavored entry (the loanId and "loan" or "lend") in *)
(* the window and no entry with the loanId and "repay", getLoanStatus       *)
(* returns 'active', whatever other entries contain the loanId.             *)
C6_FinancingMeansActive ==
  (/\ Answered("getLoanStatus")
   /\ RefersWith(LoanLimit, ret.argId, "loan") \/ RefersWith(LoanLimit, ret.argId, "lend")
   /\ ~RefersWith(LoanLimit, ret.argId, "repay"))
    => ret.status = "active"

(* C7: a terminal status is never over-reported. 'settled' and 'repaid' are *)
(* returned only if the scanned window holds an entry with the queried      *)
(* identifier and the keyword "repay".                                      *)
C7_TerminalNeedsRepay ==
  /\ (Answered("getInvoiceStatus") /\ ret.status = "settled")
       => RefersWith(StatusLimit, ret.argId, "repay")
  /\ (Answered("getLoanStatus") /\ ret.status = "repaid")
       => RefersWith(LoanLimit, ret.argId, "repay")

\* 'settled' has been returned for an invoice that a repay entry names
C7_Witness ==
  /\ Answered("getInvoiceStatus") /\ ret.status = "settled"
  /\ \E sig \in Window(StatusLimit) : ~IsCreation(ledger[sig]) /\ Mentions(sig, ret.argId)

(* C8: once repayLoan has appended its entry for a loanId, with any         *)
(* transferred amount, every getLoanStatus(loanId) whose scan window holds  *)
(* that entry returns 'repaid', whatever else references the loanId.        *)
IsRepayment(sig, loanId) ==
  /\ Len(ledger[sig]) = 2
  /\ ledger[sig][1][1] = SystemProgramId
  /\ ledger[sig][2] = MemoIx(<<Word("type"), Text1("repay"), Word("loanId"), loanId>>)

C8_RepaidAfterRepay ==
  (Answered("getLoanStatus") /\ \E sig \in Window(LoanLimit) : IsRepayment(sig, ret.argId))
    => ret.status = "repaid"

\* 'repaid' after a partial repayment that is scanned after a newer financing entry
C8_Witness ==
  /\ Answered("getLoanStatus") /\ ret.status = "repaid"
  /\ \E newer, older \in Window(LoanLimit) :
       /\ newer > older
       /\ IsRepayment(older, ret.argId)
       /\ ledger[older][1][2][4] = Num(1000000000)
       /\ Mentions(newer, ret.argId) /\ ~Flavored(newer, "repay")

(* C9: unknown identifier. If no entry of the verifier's scan window        *)
(* recomputes to the queried invoiceId, getInvoiceStatus returns            *)
(* 'not_found', also when entries of the window contain the identifier      *)
(* together with "loan" or "repay".                                         *)
C9_UnknownIsNotFound ==
  (Answered("getInvoiceStatus") /\ ~Found(ret.argId)) => ret.status = "not_found"

\* 'not_found' although the window holds entries that name the identifier
C9_Witness ==
  /\ Answered("getInvoiceStatus") /\ ret.status = "not_found"
  /\ RefersWith(StatusLimit, ret.argId, "loan")
  /\ RefersWith(StatusLimit, ret.argId, "repay")

(* C10: scan window exhaustion. When the only entries that match the        *)
(* invoiceId lie beyond the verifier's scan window, verifyInvoice by        *)
(* invoiceId returns {verified: false} as a value and raises no error.      *)
BeyondWindow(id) ==
  /\ \E sig \in 1..Len(ledger) : Recomputes(sig, id)
  /\ \A sig \in Window(VerifyLimit) : ~Recomputes(sig, id)

C10_WindowExhaustion ==
  (/\ ret.op = "verifyInvoice" /\ ret.argSig = 0 /\ ret.argId # Undefined
   /\ BeyondWindow(ret.argId))
    => (ret.err = "" /\ ~ret.verified /\ ret.id = Undefined)

\* a by-id verification of an invoice whose entry has left the window
C10_Witness ==
  /\ Answered("verifyInvoice") /\ ret.argSig = 0 /\ ret.argId # Undefined
  /\ BeyondWindow(ret.argId)
  /\ ~ret.verified

(* C11: malformed payloads are skipped. With an entry in the verifier's     *)
(* scan window whose memo does not parse and every fetch answered,         *)
(* verifyInvoice by invoiceId and getInvoiceStatus raise nothing and give  *)
(* the result of the remaining entries: a well-formed match in the window  *)
(* is still found.                                                         *)
C11_MalformedSkipped ==
  (/\ ById("verifyInvoice") \/ ById("getInvoiceStatus")
   /\ FailedFetches({"null", "rejects"}) = {}
   /\ \E sig \in Window(VerifyLimit) : Malformed(sig))
    => /\ ret.err = ""
       /\ ret.op = "verifyInvoice" => (ret.verified <=> Found(ret.argId))
       /\ ret.op = "getInvoiceStatus" => (ret.status # "not_found" <=> Found(ret.argId))

(* C12: a failed fetch of one entry is skipped. When one getTransaction of *)
(* a scan (verifyInvoice by id, getInvoiceStatus, getLoanStatus) rejects   *)
(* or gives no entry, and every memo of the history parses, the operation  *)
(* returns a result value and raises nothing.                              *)
C12_FetchFailureSkipped ==
  (/\ ById("verifyInvoice") \/ ById("getInvoiceStatus") \/ ById("getLoanStatus")
   /\ FailedFetches({"null", "rejects"}) # {}
   /\ \A sig \in 1..Len(ledger) : ~Malformed(sig))
    => ret.err = ""

(* C13: validation boundaries. At the clock value now,                     *)
(* validateInvoiceInput rejects an amount <= 0, rejects a dueDate <= now,  *)
(* rejects a description of more than 1024 characters, and accepts every   *)
(* input with a positive amount, a recipient of 32 to 44 characters, a     *)
(* dueDate after now and a description of at most 1024 characters: so a    *)
(* description of exactly 1024, the smallest positive amount and           *)
(* dueDate = now + 86400 are accepted.                                     *)
Validated == ret.op = "validateInvoiceInput"

DescriptionLength ==
  IF IsStr(Get(ret.input, "description")) THEN StrLen(Get(ret.input, "description")[2]) ELSE 0

WellFormedRecipient ==
  /\ IsStr(Get(ret.input, "recipientWallet"))
  /\ StrLen(Get(ret.input, "recipientWallet")[2]) \in 32..44

C13_ValidationBoundaries ==
  Validated =>
    LET amount == Get(ret.input, "amount")
        dueDate == Get(ret.input, "dueDate")
    IN /\ (IsNum(amount) /\ amount[2] <= 0) => ret.err = "INVALID_INPUT"
       /\ dueDate[2] <= now => ret.err = "INVALID_INPUT"
       /\ DescriptionLength > 1024 => ret.err = "INVALID_INPUT"
       /\ (/\ IsNum(amount) /\ amount[2] > 0
           /\ WellFormedRecipient
           /\ dueDate[2] > now
           /\ DescriptionLength <= 1024) => ret.err = ""

\* accepted: the smallest positive amount, a due date one day ahead and a
\* description of exactly 1024 characters
C13_Witness ==
  /\ Validated /\ ret.err = ""
  /\ Get(ret.input, "amount") = Num(1)
  /\ Get(ret.input, "dueDate") = Num(now + 86400)
  /\ DescriptionLength = 1024

(* C14: validation precedes the network. With a wallet bound, a call of    *)
(* createInvoice, requestLoan or repayLoan with a non-positive amount ends *)
(* with INVALID_INPUT, makes no call on wallet or connection and appends   *)
(* no entry.                                                               *)
C14_ValidationPrecedesNetwork ==
  [][publicKey # Undefined =>
       \A outcome \in Outcomes :
         /\ \A input \in InvoiceInputs :
              (Get(input, "amount")[2] <= 0 /\ createInvoice(input, outcome))
                => (ret'.err = "INVALID_INPUT" /\ NothingSubmitted)
         /\ \A input \in LoanRequests :
              (Get(input, "requestedAmount")[2] <= 0 /\ requestLoan(input, outcome))
                => (ret'.err = "INVALID_INPUT" /\ NothingSubmitted)
         /\ \A lender \in {Text1("LenderPubkey44")}, loanId \in RepayIds, amountSOL \in {0} :
              repayLoan(lender, loanId, amountSOL, outcome)
                => (ret'.err = "INVALID_INPUT" /\ NothingSubmitted)]_vars

(* C15: a submission failure is fatal and not retried. When signing,       *)
(* sending or confirming fails in createInvoice, requestLoan or repayLoan, *)
(* the operation ends with TRANSACTION_FAILED, returns no identifier and   *)
(* no signature, and has signed and sent at most once, nothing after the   *)
(* failed call.                                                            *)
CallsOf(method) == {i \in 1..Len(calls) : calls[i][1] = method}

C15_SubmissionFailureFatal ==
  (ret.op \in SubmitOps /\ \E i \in 1..Len(calls) : calls[i][2] = "rejects")
    => /\ ret.err = "TRANSACTION_FAILED"
       /\ ret.id = Undefined /\ ret.sig = 0
       /\ Cardinality(CallsOf("signTransaction")) <= 1
       /\ Cardinality(CallsOf("sendRawTransaction")) <= 1
       /\ calls[Len(calls)][2] = "rejects"

\* a loan request whose send was rejected
C15_Witness ==
  /\ ret.op = "requestLoan" /\ ret.err = "TRANSACTION_FAILED"
  /\ calls = <<Call("signTransaction", "ok"), Call("sendRawTransaction", "rejects")>>

(* C16 as stated: with no publicKey on the wallet, createInvoice,          *)
(* requestLoan and repayLoan end with WALLET_NOT_CONNECTED and nothing is  *)
(* signed or submitted.                                                    *)
C16_AlwaysWalletNotConnected ==
  (publicKey = Undefined /\ ret.op \in SubmitOps)
    => (ret.err = "WALLET_NOT_CONNECTED" /\ calls = <<>> /\ ledger = <<>>)

(* C16 amended: with no publicKey on the wallet, the three operations sign *)
(* nothing, submit nothing and return nothing; requestLoan and repayLoan   *)
(* end with WALLET_NOT_CONNECTED for every input, createInvoice ends with  *)
(* WALLET_NOT_CONNECTED for an input that validateInvoiceInput accepts and *)
(* with INVALID_INPUT for one it rejects.                                  *)
C16_NoWalletNothingSubmitted ==
  [][publicKey = Undefined =>
       \A outcome \in Outcomes :
         /\ \A input \in InvoiceInputs :
              createInvoice(input, outcome)
                => /\ NothingSubmitted
                   /\ ret'.err = IF validateInvoiceInput(input, now) = ""
                                 THEN "WALLET_NOT_CONNECTED" ELSE "INVALID_INPUT"
         /\ \A input \in LoanRequests :
              requestLoan(input, outcome)
                => (NothingSubmitted /\ ret'.err = "WALLET_NOT_CONNECTED")
         /\ \A lender \in {Undefined, Text1("LenderPubkey44")}, loanId \in RepayIds,
               amountSOL \in {0, 1} :
              repayLoan(lender, loanId, amountSOL, outcome)
                => (NothingSubmitted /\ ret'.err = "WALLET_NOT_CONNECTED")]_vars

\* a repayment without lenderPubkey was refused for the missing wallet
C16_Witness ==
  /\ publicKey = Undefined
  /\ ret.op = "repayLoan" /\ ret.err = "WALLET_NOT_CONNECTED"
  /\ calls = <<>> /\ ledger = <<>>

(* C17: verifyInvoice with a txSignature, the fetch answered. It returns   *)
(* {verified: false} when the entry is absent, when it carries no memo,    *)
(* and when an invoiceId is supplied that differs from the identifier      *)
(* recomputed from the memo; in every other case it returns                *)
(* {verified: true, record} with the recomputed identifier and the given   *)
(* txSignature. Its only call on the connection is the one getTransaction. *)
ByEntry == ret.op = "verifyInvoice" /\ ret.argSig # 0

C17_VerifyByEntry ==
  (ByEntry /\ FailedFetches({"rejects"}) = {}) =>
    /\ Len(calls) = 1 /\ calls[1][1] = "getTransaction"
    /\ IF \/ calls[1][2] = "null"
          \/ ~HasMemo(ledger[ret.argSig])
          \/ /\ ret.argId # Undefined
             /\ RecomputeId(JSONparse(Memo(ret.argSig))) # ret.argId
       THEN ret.err = "" /\ ~ret.verified
       ELSE /\ ret.err = "" /\ ret.verified
            /\ ret.id = RecomputeId(JSONparse(Memo(ret.argSig)))
            /\ ret.sig = ret.argSig

(* C18: verifyInvoice by invoiceId returns the first exact match of the    *)
(* newest-first listing: verified is true exactly when an entry of the     *)
(* scan window recomputes to the invoiceId, and the record then carries    *)
(* the signature of the newest such entry.                                 *)
Matching(id) == {sig \in Window(VerifyLimit) : Recomputes(sig, id)}

C18_FirstMatch ==
  ById("verifyInvoice") =>
    /\ ret.err = ""
    /\ ret.verified <=> Matching(ret.argId) # {}
    /\ ret.verified =>
         /\ ret.id = ret.argId
         /\ ret.sig \in Matching(ret.argId)
         /\ \A sig \in Matching(ret.argId) : sig <= ret.sig

\* two entries of the window recompute to the identifier; the newer is returned
C18_Witness ==
  /\ ById("verifyInvoice") /\ ret.verified
  /\ \E older \in Matching(ret.argId) : older < ret.sig

(* C19: two records with the same keys and values at every nesting level  *)
(* have the same stableStringify text whatever the insertion order of      *)
(* their keys, and no other two records do: in particular the order of     *)
(* array elements is kept, so the same elements in another order give a    *)
(* different text.                                                         *)
KeysOf(members) == {members[i][1] : i \in 1..Len(members)}

\* equal as key/value structures: objects by key, arrays by position
RECURSIVE DeepEqual(_, _)
DeepEqual(v, w) ==
  IF v[1] # w[1] THEN FALSE
  ELSE IF v[1] = "a"
       THEN /\ Len(v[2]) = Len(w[2])
            /\ \A i \in 1..Len(v[2]) : DeepEqual(v[2][i], w[2][i])
  ELSE IF v[1] = "o"
       THEN /\ KeysOf(v[2]) = KeysOf(w[2])
            /\ \A k \in KeysOf(v[2]) : DeepEqual(Get(v[2], k), Get(w[2], k))
  ELSE v = w

TwoCalls == ret.op = "identify" /\ ret.prevId # Undefined

C19_CanonicalDeterminism ==
  TwoCalls => (DeepEqual(Obj(ret.R), Obj(ret.prevR)) <=> ret.text = ret.prevText)

\* the same record with the keys of the record and of a nested object in
\* another insertion order
C19_Witness ==
  /\ TwoCalls /\ DeepEqual(Obj(ret.R), Obj(ret.prevR))
  /\ Len(ret.R) = 2 /\ ret.R[1][1] # ret.prevR[1][1]
  /\ \E i \in 1..2 : /\ ret.R[i][2][1] = "o" /\ Len(ret.R[i][2][2]) = 2
                      /\ ret.R[i][2] # Get(ret.prevR, ret.R[i][1])
  /\ ret.text = ret.prevText

\* the same array elements in another order
C19_ArrayWitness ==
  /\ TwoCalls /\ Len(ret.R) = 1 /\ Len(ret.prevR) = 1
  /\ ret.R[1][1] = ret.prevR[1][1]
  /\ ret.R[1][2] = Arr(<<Num(1), Num(2)>>) /\ ret.prevR[1][2] = Arr(<<Num(2), Num(1)>>)
  /\ ret.text # ret.prevText

(* C20: the identifier is a function of the canonical text alone. Computed *)
(* again, at any later time, sha256Hex(stableStringify(R)) is the same     *)
(* string of 64 lowercase hexadecimal digits; two records have the same    *)
(* identifier exactly when their canonical texts are equal, and records    *)
(* that differ in one scalar field have different identifiers.             *)
IsDigest(v) == v[1] = "s" /\ Len(v[2]) = 1 /\ v[2][1][1] = "h" /\ StrLen(v[2]) = 64

\* the same structure and insertion order, one scalar changed
RECURSIVE OneScalarApart(_, _)
OneScalarApart(v, w) ==
  IF v[1] \notin {"a", "o"} /\ w[1] \notin {"a", "o"} THEN v # w
  ELSE IF v[1] # w[1] \/ Len(v[2]) # Len(w[2]) THEN FALSE
  ELSE \E i \in 1..Len(v[2]) :
         /\ \A j \in 1..Len(v[2]) : j # i => v[2][j] = w[2][j]
         /\ IF v[1] = "a" THEN OneScalarApart(v[2][i], w[2][i])
            ELSE /\ v[2][i][1] = w[2][i][1]
                 /\ OneScalarApart(v[2][i][2], w[2][i][2])

Present(payload) ==
  /\ Get(payload, "borrowingPower") # Undefined
  /\ Get(payload, "riskTier") # Undefined
  /\ Get(payload, "expectedLoanTerms") # Undefined

ShapeValid(answers) == {i \in 1..Len(answers) : answers[i][1] = "json" /\ Present(answers[i][2])}

Fetches == SelectSeq(calls, LAMBDA c : c[1] = "fetch")

C21_FirstValidOracleWins ==
  ret.op = "simulateCredit" =>
    IF ShapeValid(ret.answers) # {}
    THEN LET first == CHOOSE i \in ShapeValid(ret.answers) :
                        \A j \in ShapeValid(ret.answers) : i <= j
         IN /\ ret.err = "" /\ ret.result = ret.answers[first][2]
            /\ calls = [i \in 1..first |-> Call("fetch", FetchOutcome(ret.answers[i]))]
    ELSE /\ Len(Fetches) = Len(ret.answers)
         /\ calls[Len(calls)][1] = "evaluate"
         /\ ret.evaluation[1] = "ok" => ret.err = "" /\ ret.result = ret.evaluation[2]

(* C22: the flow of one wallet. Once createInvoice has returned invoiceId  *)
(* and a requestLoan against it has landed, getInvoiceStatus(invoiceId) is  *)
(* 'financed'; once a repayLoan of that loan has landed as well, it is      *)
(* 'settled'. The invoice's entry is inside the window of the existence     *)
(* check, the loan's and the repayment's inside the window of the status    *)
(* scan.                                                                    *)
IsInvoice(sig, invoiceId) == IsCreation(ledger[sig]) /\ Recomputes(sig, invoiceId)

LoansAgainst(invoiceId) ==
  {l \in Window(StatusLimit) :
     /\ IsLoanRequest(l)
     /\ Get(JSONparse(Memo(l)), "invoiceId") = invoiceId
     /\ \E i \in Window(VerifyLimit) : i < l /\ IsInvoice(i, invoiceId)}

Repaid(l) == \E r \in Window(StatusLimit) : r > l /\ IsRepayment(r, sha256Hex(Memo(l)))

C22_EndToEndFlow ==
  (Answered("getInvoiceStatus") /\ LoansAgainst(ret.argId) # {}) =>
    IF \E l \in LoansAgainst(ret.argId) : Repaid(l)
    THEN ret.status = "settled"
    ELSE ret.status = "financed"

(* C23: while the owner's whole history fits inside the scan windows, a    *)
(* status never regresses: the result of getInvoiceStatus for an invoiceId *)
(* is not below the result the same query gave on the ledger as it stood   *)
(* at any earlier moment, in the order not_found < verified < financed <   *)
(* settled; likewise getLoanStatus for a loanId, in the order not_found <  *)
(* requested < active < repaid.                                            *)
Rank(status) ==
  CASE status = "not_found" -> 0
    [] status \in {"verified", "requested"} -> 1
    [] status \in {"financed", "active"} -> 2
    [] status \in {"settled", "repaid"} -> 3

\* the ledger is append-only: its earlier states are its proper prefixes
Earlier == {SubSeq(ledger, 1, k) : k \in 0..(Len(ledger) - 1)}

C23_InvoiceWitness ==
  /\ Answered("getInvoiceStatus") /\ Len(ledger) <= StatusLimit /\ ret.status = "financed"
  /\ \E L \in Earlier : getInvoiceStatus(L, publicKey, ret.argId).status = "verified"

(* C24: a getInvoiceStatus call that ran while other callers appended      *)
(* returns the status that a call without interleaving returns on the      *)
(* ledger as it stood at one moment between the call's start and its end.  *)
Moments == {SubSeq(ledger, 1, k) : k \in ret.from..ret.to}

C24_SingleMoment ==
  (ret.op = "getInvoiceStatus" /\ ret.pc = "done") =>
    \E L \in Moments : getInvoiceStatus(L, publicKey, ret.argId).status = ret.status

(* C25: when createInvoice, requestLoan or repayLoan ends with             *)
(* TRANSACTION_FAILED, the ledger holds no entry from that call: the step  *)
(* that reports the failure appends nothing.                               *)
C25_FailureAppendsNothing ==
  [][(ret'.op \in SubmitOps /\ ret'.err = "TRANSACTION_FAILED") => ledger' = ledger]_vars

(* C26: queries are read-only and writes are append-only. A step of        *)
(* verifyInvoice, getInvoiceStatus or getLoanStatus leaves the ledger      *)
(* unchanged and calls nothing but getSignaturesForAddress and             *)
(* getTransaction; a successful createInvoice, requestLoan or repayLoan    *)
(* appends exactly one entry and leaves every existing entry as it was.    *)
QueryOps == {"verifyInvoice", "getInvoiceStatus", "getLoanStatus"}

ReadCalls == {"getSignaturesForAddress", "getTransaction"}

C26_ReadOnlyAppendOnly ==
  [][now' = now =>
       /\ ret'.op \in QueryOps =>
            /\ ledger' = ledger
            /\ \A i \in 1..Len(calls') : calls'[i][1] \in ReadCalls
       /\ (ret'.op \in SubmitOps /\ ret'.err = "") =>
            /\ Len(ledger') = Len(ledger) + 1
            /\ SubSeq(ledger', 1, Len(ledger)) = ledger]_vars

\* a repayment has landed on a ledger that held entries, and was reported
C26_Witness ==
  /\ ret.op = "repayLoan" /\ ret.err = "" /\ ret.sig = Len(ledger)
  /\ Len(ledger) > 1
  /\ Len(calls) = 3

====
